---- MODULE Spec2Model ----
(***************************************************************************)
(* Model of the agent decision core of emuvlm (emuvlm/model/agent.py) and  *)
(* of the game loop that drives it (emuvlm/play.py).                       *)
(*                                                                         *)
(* Text is modelled as the sequence of its lexemes: a maximal run of word  *)
(* characters is one token ("Up", "press", "500"), a run of whitespace is  *)
(* the token "sp", and every punctuation character is a token of its own   *)
(* ("{", "}", "dq" for the double quote, "sq" for the single quote, ":",   *)
(* ",", "-", ".").  A Python value is a record [t, s]: t is "str", "num"   *)
(* or "null" (None) and s the token sequence of a string or number.        *)
(***************************************************************************)
EXTENDS Integers, Sequences, FiniteSets, TLC

(***************************************************************************)
(* Lexical layer: str.lower, str.capitalize, str.strip, \w, \s             *)
(***************************************************************************)
Punct == {"{", "}", "dq", "sq", ":", ",", "-", "."}

IsSpace(tok) == tok = "sp"

IsWord(tok) == tok \notin Punct /\ tok # "sp"

Lower(tok) ==
    CASE tok \in {"Up", "UP"} -> "up"
      [] tok \in {"Down", "DOWN"} -> "down"
      [] tok \in {"Left", "LEFT"} -> "left"
      [] tok \in {"Right", "RIGHT"} -> "right"
      [] tok = "A" -> "a"
      [] tok = "B" -> "b"
      [] tok = "C" -> "c"
      [] tok = "Z" -> "z"
      [] tok = "L" -> "l"
      [] tok = "R" -> "r"
      [] tok \in {"Start", "START"} -> "start"
      [] tok \in {"Select", "SELECT"} -> "select"
      [] tok \in {"None", "NONE"} -> "none"
      [] tok \in {"Jump", "JUMP"} -> "jump"
      [] tok \in {"Press", "PRESS"} -> "press"
      [] tok \in {"Push", "PUSH"} -> "push"
      [] tok \in {"Move", "MOVE"} -> "move"
      [] tok \in {"Go", "GO"} -> "go"
      [] tok \in {"Button", "BUTTON"} -> "button"
      [] tok \in {"Action", "ACTION"} -> "action"
      [] tok = "Invalid" -> "invalid"
      [] tok = "Error" -> "error"
      [] tok = "I" -> "i"
      [] OTHER -> tok

Capitalize(tok) ==
    CASE Lower(tok) = "up" -> "Up"
      [] Lower(tok) = "down" -> "Down"
      [] Lower(tok) = "left" -> "Left"
      [] Lower(tok) = "right" -> "Right"
      [] Lower(tok) = "a" -> "A"
      [] Lower(tok) = "b" -> "B"
      [] Lower(tok) = "c" -> "C"
      [] Lower(tok) = "z" -> "Z"
      [] Lower(tok) = "l" -> "L"
      [] Lower(tok) = "r" -> "R"
      [] Lower(tok) = "start" -> "Start"
      [] Lower(tok) = "select" -> "Select"
      [] Lower(tok) = "none" -> "None"
      [] Lower(tok) = "jump" -> "Jump"
      [] Lower(tok) = "press" -> "Press"
      [] Lower(tok) = "push" -> "Push"
      [] Lower(tok) = "move" -> "Move"
      [] Lower(tok) = "go" -> "Go"
      [] Lower(tok) = "button" -> "Button"
      [] Lower(tok) = "action" -> "Action"
      [] Lower(tok) = "invalid" -> "Invalid"
      [] Lower(tok) = "error" -> "Error"
      [] Lower(tok) = "i" -> "I"
      [] OTHER -> tok

\* str.upper of the words used as action names
Upper(tok) ==
    CASE Lower(tok) = "up" -> "UP"
      [] Lower(tok) = "down" -> "DOWN"
      [] Lower(tok) = "left" -> "LEFT"
      [] Lower(tok) = "right" -> "RIGHT"
      [] Lower(tok) = "start" -> "START"
      [] Lower(tok) = "select" -> "SELECT"
      [] Lower(tok) \in {"a", "b", "c", "z", "l", "r"} -> Capitalize(tok)
      [] OTHER -> tok

LowerText(s) == [i \in 1..Len(s) |-> Lower(s[i])]

UpperText(s) == [i \in 1..Len(s) |-> Upper(s[i])]

RECURSIVE LStrip(_)
LStrip(s) == IF s # <<>> /\ IsSpace(Head(s)) THEN LStrip(Tail(s)) ELSE s

RECURSIVE RStrip(_)
RStrip(s) ==
    IF s # <<>> /\ IsSpace(s[Len(s)]) THEN RStrip(SubSeq(s, 1, Len(s) - 1)) ELSE s

Strip(s) == RStrip(LStrip(s))

StartsWithBrace(s) == s # <<>> /\ Head(s) = "{"

EndsWithBrace(s) == s # <<>> /\ s[Len(s)] = "}"

(***************************************************************************)
(* Python values                                                           *)
(***************************************************************************)
PyNone == [t |-> "null", s |-> <<>>]

Str(s) == [t |-> "str", s |-> s]

Num(s) == [t |-> "num", s |-> s]

IsStr(v) == v.t = "str"

\* Python truthiness of None / str values
Truthy(v) == v.t = "str" /\ v.s # <<>>

(***************************************************************************)
(* json.loads restricted to flat objects whose values are strings, numbers *)
(* or null.  The result is [ok, d]: ok = FALSE stands for JSONDecodeError, *)
(* d is the dict as a sequence of [k, v] items in insertion order.         *)
(***************************************************************************)
RECURSIVE SkipWs(_, _)
SkipWs(s, i) == IF i <= Len(s) /\ IsSpace(s[i]) THEN SkipWs(s, i + 1) ELSE i

RECURSIVE FindTok(_, _, _)
\* index of the first occurrence of tok in s at or after i, 0 when there is none
FindTok(s, i, tok) ==
    IF i > Len(s) THEN 0
    ELSE IF s[i] = tok THEN i ELSE FindTok(s, i + 1, tok)

IsNumberTok(tok) == tok \in {"5", "500"}

\* a JSON string starting at i: [ok, v, next]
ScanString(s, i) ==
    LET Closing(j) ==
            IF j = 0 THEN [ok |-> FALSE, v |-> PyNone, next |-> i]
            ELSE [ok |-> TRUE, v |-> Str(SubSeq(s, i + 1, j - 1)), next |-> j + 1]
    IN IF i > Len(s) \/ s[i] # "dq" THEN [ok |-> FALSE, v |-> PyNone, next |-> i]
       ELSE Closing(FindTok(s, i + 1, "dq"))

ScanValue(s, i) ==
    IF i > Len(s) THEN [ok |-> FALSE, v |-> PyNone, next |-> i]
    ELSE IF s[i] = "dq" THEN ScanString(s, i)
    ELSE IF s[i] = "null" THEN [ok |-> TRUE, v |-> PyNone, next |-> i + 1]
    ELSE IF IsNumberTok(s[i]) THEN [ok |-> TRUE, v |-> Num(<<s[i]>>), next |-> i + 1]
    ELSE [ok |-> FALSE, v |-> PyNone, next |-> i]

HasKey(d, k) == \E i \in 1..Len(d) : d[i].k = k

Get(d, k) == d[CHOOSE i \in 1..Len(d) : d[i].k = k].v

\* dict[k] = v: an existing key keeps its position
DictSet(d, k, v) ==
    IF HasKey(d, k)
    THEN [i \in 1..Len(d) |-> IF d[i].k = k THEN [k |-> k, v |-> v] ELSE d[i]]
    ELSE Append(d, [k |-> k, v |-> v])

RECURSIVE ScanMembers(_, _, _)
\* members of an object from position i (just before a key): [ok, d, next]
ScanMembers(s, i, d) ==
    LET bad == [ok |-> FALSE, d |-> <<>>, next |-> i]
        AfterValue(key, val, e) ==
            IF e > Len(s) THEN bad
            ELSE IF s[e] = "}" THEN [ok |-> TRUE, d |-> DictSet(d, key.v.s, val.v), next |-> e + 1]
            ELSE IF s[e] = "," THEN ScanMembers(s, e + 1, DictSet(d, key.v.s, val.v))
            ELSE bad
        AfterColon(key, val) ==
            IF ~val.ok THEN bad ELSE AfterValue(key, val, SkipWs(s, val.next))
        AfterKey(key, c) ==
            IF ~key.ok THEN bad
            ELSE IF c > Len(s) \/ s[c] # ":" THEN bad
            ELSE AfterColon(key, ScanValue(s, SkipWs(s, c + 1)))
        FromKey(key) == AfterKey(key, SkipWs(s, key.next))
    IN FromKey(ScanString(s, SkipWs(s, i)))

ScanObject(s, i) ==
    LET Inside(j) ==
            IF j <= Len(s) /\ s[j] = "}" THEN [ok |-> TRUE, d |-> <<>>, next |-> j + 1]
            ELSE ScanMembers(s, i + 1, <<>>)
    IN IF i > Len(s) \/ s[i] # "{" THEN [ok |-> FALSE, d |-> <<>>, next |-> i]
       ELSE Inside(SkipWs(s, i + 1))

\* json.loads of a text that starts (after whitespace) with "{"
JsonLoads(s) ==
    LET Whole(o) ==
            IF o.ok /\ SkipWs(s, o.next) > Len(s)
            THEN [ok |-> TRUE, d |-> o.d]
            ELSE [ok |-> FALSE, d |-> <<>>]
    IN Whole(ScanObject(s, SkipWs(s, 1)))

(***************************************************************************)
(* Regular-expression searches of agent.py over token sequences            *)
(***************************************************************************)
MatchAt(text, i, pat) ==
    /\ i >= 1
    /\ i + Len(pat) - 1 <= Len(text)
    /\ \A k \in 1..Len(pat) : text[i + k - 1] = pat[k]

\* \b between positions i-1 and i of text
Boundary(text, i) ==
    (i > 1 /\ i - 1 <= Len(text) /\ IsWord(text[i - 1])) # (i <= Len(text) /\ IsWord(text[i]))

\* re.search(rf"\b{re.escape(pat)}\b", text)
WordSearch(text, pat) ==
    \E i \in 1..Len(text) :
        /\ MatchAt(text, i, pat)
        /\ Boundary(text, i)
        /\ Boundary(text, i + Len(pat))

\* the word tokens that end with the characters of kw (kw itself, and longer words)
EndsWithWord(tok, kw) == tok = kw \/ (tok = "compress" /\ kw = "press")

Directions == {"up", "down", "left", "right"}

\* the direction a lowercase word token starts with, "" when it starts with none
DirectionPrefix(tok) ==
    IF tok \in Directions THEN tok
    ELSE IF tok = "upward" THEN "up"
    ELSE ""

\* the ordered context patterns: keyword, and whether the group is (up|down|left|right)
context_patterns ==
    << [kw |-> "press", dir |-> FALSE],
       [kw |-> "push", dir |-> FALSE],
       [kw |-> "move", dir |-> TRUE],
       [kw |-> "go", dir |-> TRUE],
       [kw |-> "select", dir |-> FALSE],
       [kw |-> "button", dir |-> FALSE] >>

\* positions where the pattern kw\s+(group) matches
ContextMatches(text, p) ==
    { i \in 1..Len(text) :
        /\ EndsWithWord(text[i], p.kw)
        /\ i + 1 <= Len(text) /\ IsSpace(text[i + 1])
        /\ \E j \in {SkipWs(text, i + 1)} :
              /\ j <= Len(text)
              /\ IsWord(text[j])
              /\ (p.dir => DirectionPrefix(text[j]) # "") }

Min(S) == CHOOSE x \in S : \A y \in S : x <= y

\* match.group(1) of re.search(pattern, text), for a pattern that matches
ContextGroup(text, p) ==
    LET GroupAt(j) == IF p.dir THEN DirectionPrefix(text[j]) ELSE text[j]
    IN GroupAt(SkipWs(text, Min(ContextMatches(text, p)) + 1))

\* re.search(r'"action"\s*:\s*Q([^Q]+)Q', text, re.IGNORECASE) for the quote Q:
\* the positions of the opening quote of the key where the pattern matches
ActionFieldMatches(text, q) ==
    { i \in 1..Len(text) :
        /\ i + 2 <= Len(text)
        /\ text[i] = "dq" /\ Lower(text[i + 1]) = "action" /\ text[i + 2] = "dq"
        /\ \E c \in {SkipWs(text, i + 3)} :
              /\ c <= Len(text) /\ text[c] = ":"
              /\ \E o \in {SkipWs(text, c + 1)} :
                    /\ o <= Len(text) /\ text[o] = q
                    /\ FindTok(text, o + 1, q) > o + 1 }

ActionFieldGroup(text, q) ==
    LET Between(o) == SubSeq(text, o + 1, FindTok(text, o + 1, q) - 1)
    IN Between(SkipWs(text, SkipWs(text, Min(ActionFieldMatches(text, q)) + 3) + 1))

\* re.search(rf'"({"|".join(names)})"', text): the positions of the opening quote
DirectMatches(text, names) ==
    { i \in 1..Len(text) :
        /\ text[i] = "dq"
        /\ \E n \in 1..Len(names) :
              /\ MatchAt(text, i + 1, names[n])
              /\ i + 1 + Len(names[n]) <= Len(text)
              /\ text[i + 1 + Len(names[n])] = "dq" }

DirectGroup(text, names) ==
    LET NameAt(i) ==
            names[Min({ m \in 1..Len(names) :
                          /\ MatchAt(text, i + 1, names[m])
                          /\ i + 1 + Len(names[m]) <= Len(text)
                          /\ text[i + 1 + Len(names[m])] = "dq" })]
    IN NameAt(Min(DirectMatches(text, names)))

RECURSIVE BraceScan(_, _, _)
\* the index at which the brace count of _query_model returns to zero, 0 if never
BraceScan(s, i, count) ==
    IF i > Len(s) THEN 0
    ELSE IF s[i] = "{" THEN BraceScan(s, i + 1, count + 1)
    ELSE IF s[i] = "}"
         THEN IF count - 1 = 0 THEN i ELSE BraceScan(s, i + 1, count - 1)
    ELSE BraceScan(s, i + 1, count)

\* json_str after the brace-matching loop
BraceTruncate(s) ==
    LET CutAt(i) == IF i = 0 THEN s ELSE SubSeq(s, 1, i)
    IN CutAt(BraceScan(s, 1, 0))

(***************************************************************************)
(* LLMAgent.parse_action                                                   *)
(*   self is the record of the agent's attributes.  The result is          *)
(*   [raised, ret, summary]: raised = TRUE when an exception leaves the    *)
(*   method, ret the value returned, summary the value of self.summary     *)
(*   when the method is left.                                              *)
(***************************************************************************)
\* v in self.valid_actions
InActions(valid_actions, v) ==
    IsStr(v) /\ \E i \in 1..Len(valid_actions) : valid_actions[i] = v.s

\* the loop "for valid_action in self.valid_actions" of the direct-matching tier:
\* the indices whose exact or word-boundary test succeeds
DirectMatchIndices(valid_actions, text) ==
    { i \in 1..Len(valid_actions) :
        \/ LowerText(valid_actions[i]) = text
        \/ WordSearch(text, LowerText(valid_actions[i])) }

RECURSIVE ContextTier(_, _, _)
\* the loop over context_patterns from pattern k on
ContextTier(valid_actions, text, k) ==
    LET Candidate(action_candidate) ==
            IF InActions(valid_actions, Str(<<action_candidate>>))
            THEN Str(<<action_candidate>>)
            ELSE IF /\ Lower(action_candidate) \in Directions
                    /\ InActions(valid_actions, Str(<<Capitalize(action_candidate)>>))
            THEN Str(<<Capitalize(action_candidate)>>)
            ELSE ContextTier(valid_actions, text, k + 1)
    IN IF k > Len(context_patterns) THEN PyNone
       ELSE IF ContextMatches(text, context_patterns[k]) = {}
       THEN ContextTier(valid_actions, text, k + 1)
       ELSE Candidate(Capitalize(ContextGroup(text, context_patterns[k])))

\* the text tiers of parse_action (from "Handle empty responses" on)
ParseText(self, action_text) ==
    LET Tiers(text, hits) ==
            IF hits # {} THEN Str(self.valid_actions[Min(hits)])
            ELSE ContextTier(self.valid_actions, text, 1)
        Lowered(text) == Tiers(text, DirectMatchIndices(self.valid_actions, text))
    IN IF ~Truthy(action_text) \/ Strip(action_text.s) = <<>> THEN PyNone
       ELSE Lowered(LowerText(action_text.s))

\* the try block of parse_action: out is "return", "raise" or "fall" (through)
ParseJson(self, action_text) ==
    LET fall == [out |-> "fall", ret |-> PyNone, summary |-> self.summary]
        looksJson ==
            /\ Truthy(action_text)
            /\ StartsWithBrace(Strip(action_text.s))
            /\ EndsWithBrace(Strip(action_text.s))
        Chosen(chosen_action, stores, game_summary) ==
            IF stores /\ ~IsStr(game_summary)
            THEN \* game_summary[:100] raises TypeError
                 [out |-> "raise", ret |-> PyNone, summary |-> self.summary]
            ELSE IF InActions(self.valid_actions, chosen_action)
            THEN [out |-> "return", ret |-> chosen_action, summary |-> game_summary]
            ELSE IF chosen_action = Str(<<"None">>)
            THEN [out |-> "return", ret |-> PyNone, summary |-> game_summary]
            ELSE [out |-> "fall", ret |-> PyNone, summary |-> game_summary]
        Stored(response_json, stores) ==
            Chosen(Get(response_json.d, <<"action">>), stores,
                   IF stores THEN Get(response_json.d, <<"game_summary">>) ELSE self.summary)
        Loaded(response_json) ==
            IF ~response_json.ok THEN fall
            ELSE IF ~HasKey(response_json.d, <<"action">>) THEN fall
            ELSE Stored(response_json,
                        HasKey(response_json.d, <<"game_summary">>) /\ self.use_summary)
    IN IF ~looksJson THEN fall ELSE Loaded(JsonLoads(action_text.s))

\* a parse that tries the text tiers before the JSON tier
ParseTextFirst(self, action_text) ==
    LET TextThenJson(t, j) ==
            IF t # PyNone THEN [raised |-> FALSE, ret |-> t, summary |-> self.summary]
            ELSE IF j.out = "raise" THEN [raised |-> TRUE, ret |-> PyNone, summary |-> j.summary]
            ELSE [raised |-> FALSE, ret |-> j.ret, summary |-> j.summary]
    IN TextThenJson(ParseText(self, action_text), ParseJson(self, action_text))

parse_action(self, action_text) ==
    LET JsonThenText(j) ==
            IF j.out = "raise" THEN [raised |-> TRUE, ret |-> PyNone, summary |-> j.summary]
            ELSE IF j.out = "return" THEN [raised |-> FALSE, ret |-> j.ret, summary |-> j.summary]
            ELSE [raised |-> FALSE, ret |-> ParseText(self, action_text), summary |-> j.summary]
    IN JsonThenText(ParseJson(self, action_text))

(***************************************************************************)
(* LLMAgent._construct_prompt: the request body                            *)
(***************************************************************************)
\* the response_format entry of params, "absent" when the key is not set
\* a response format that only the openai branch sets
ResponseFormatOpenAIOnly(self) ==
    IF self.json_schema_support /\ self.provider = "openai" THEN "json_schema" ELSE "absent"

ResponseFormat(self) ==
    IF ~self.json_schema_support THEN "absent"
    ELSE IF self.provider = "anthropic" THEN "absent"
    ELSE IF self.provider = "openai" THEN "json_schema"
    ELSE IF self.provider = "mistral" THEN "json_object"
    ELSE IF self.provider = "local"
         THEN IF self.backend = "llama.cpp"
              THEN IF self.autostart_server THEN "json_object"
                   ELSE IF self.try_json_schema THEN "json_schema" ELSE "json_object"
              ELSE "json_object"
    ELSE "json_schema"

\* history messages that replay an image with every past action
HistoryMessagesWithImages(message_history) ==
    [ i \in 1..(2 * Len(message_history)) |->
        IF i % 2 = 1
        THEN [role |-> "assistant", content |-> "action",
              action |-> message_history[(i + 1) \div 2].action, image |-> TRUE]
        ELSE [role |-> "user", content |-> "next", action |-> PyNone, image |-> FALSE] ]

\* history_messages: two messages per retained entry, in the order of the list
RECURSIVE HistoryMessages(_)
HistoryMessages(message_history) ==
    IF message_history = <<>> THEN <<>>
    ELSE LET e == Head(message_history)
         IN (IF e.frame >= 0
             THEN << [role |-> "assistant", content |-> "action", action |-> e.action,
                      image |-> FALSE],
                     [role |-> "user", content |-> "next", action |-> PyNone,
                      image |-> FALSE] >>
             ELSE <<>>)
            \o HistoryMessages(Tail(message_history))

\* a summary handed to the system template whatever the summary mode
PromptSummaryAlways(self) == self.summary

\* line 487: the summary handed to the system template
PromptSummary(self) == IF self.use_summary THEN self.summary ELSE Str(<<>>)

\* a request in the OpenAI layout whatever the provider
ConstructPromptOpenAILayout(self, image_data) ==
    [ messages |->
          << [role |-> "system", content |-> "system", action |-> PyNone, image |-> FALSE] >>
          \o HistoryMessages(self.message_history)
          \o << [role |-> "user", content |-> "frame", action |-> PyNone, image |-> TRUE] >>,
      image_data |-> image_data,
      system |-> "absent",
      summary |-> PromptSummary(self),
      response_format |-> ResponseFormat(self) ]

_construct_prompt(self, image_data) ==
    LET system_message ==
            [role |-> "system", content |-> "system", action |-> PyNone, image |-> FALSE]
        user_message ==
            [role |-> "user", content |-> "frame", action |-> PyNone, image |-> TRUE]
        prefill ==
            [role |-> "assistant", content |-> "prefill", action |-> PyNone, image |-> FALSE]
        history_messages == HistoryMessages(self.message_history)
        messages ==
            IF self.provider = "anthropic"
            THEN history_messages \o <<user_message, prefill>>
            ELSE <<system_message>> \o history_messages \o <<user_message>>
    IN [ messages |-> messages,
         image_data |-> image_data,
         system |-> IF self.provider = "anthropic"
                    THEN (IF self.json_schema_support THEN "system+format" ELSE "system")
                    ELSE "absent",
         summary |-> PromptSummary(self),
         response_format |-> ResponseFormat(self) ]

(***************************************************************************)
(* LLMAgent._query_model                                                   *)
(*   outcome is what requests.post and response.json() produce:            *)
(*   [kind, code, content] with kind "refused" or "timeout" (a             *)
(*   RequestException), "status" (a reply with status code), "no_choices"  *)
(*   or "empty_choices" (a 200 reply whose envelope lacks the text), or    *)
(*   "content" (a 200 reply whose text payload is content).                *)
(*   The result is [raised, ret, posts].                                   *)
(***************************************************************************)
provider_info(self) ==
    IF self.provider = "local"
    THEN <<"local", "sp", "with", "sp">>
         \o (IF self.backend = "llama.cpp" THEN <<"llama", ".", "cpp">> ELSE <<self.backend>>)
         \o <<"sp", "backend">>
    ELSE <<self.provider>>

ErrorStatus(self, code) == Str(<<"Error", "sp", code, "sp", "from", "sp">> \o provider_info(self))

ErrorParsing == Str(<<"Error", "sp", "parsing", "sp", "response">>)

ErrorConnecting == Str(<<"Error", "sp", "connecting", "sp", "to", "sp", "model", "sp", "server">>)

\* the partial-JSON extraction after the first json.loads failed: [ok, d]
ExtractPartial(valid_actions, full_text) ==
    IF ActionFieldMatches(full_text, "dq") # {}
    THEN [ok |-> TRUE, d |-> << [k |-> <<"action">>, v |-> Str(ActionFieldGroup(full_text, "dq"))] >>]
    ELSE IF ActionFieldMatches(full_text, "sq") # {}
    THEN [ok |-> TRUE, d |-> << [k |-> <<"action">>, v |-> Str(ActionFieldGroup(full_text, "sq"))] >>]
    ELSE IF DirectMatches(full_text, Append(valid_actions, <<"None">>)) # {}
    THEN [ok |-> TRUE,
          d |-> << [k |-> <<"action">>,
                    v |-> Str(DirectGroup(full_text, Append(valid_actions, <<"None">>)))] >>]
    ELSE [ok |-> FALSE, d |-> <<>>]

\* chosen_action of the validated JSON
ChosenAction(valid_actions, json_data) ==
    LET FirstOf(hits) == IF hits # {} THEN json_data[Min(hits)].v ELSE PyNone
    IN IF HasKey(json_data, <<"action">>) THEN Get(json_data, <<"action">>)
       ELSE IF HasKey(json_data, <<"Action">>) THEN Get(json_data, <<"Action">>)
       ELSE FirstOf({ i \in 1..Len(json_data) :
                        /\ IsStr(json_data[i].v)
                        /\ \/ InActions(valid_actions, json_data[i].v)
                           \/ json_data[i].v = Str(<<"None">>) })

\* "Process as regular text response"
QueryText(self, text_response) ==
    LET Matched(clean_response, hits) ==
            IF hits # {} THEN Str(self.valid_actions[Min(hits)]) ELSE Str(clean_response)
        Cleaned(clean_response) ==
            Matched(clean_response,
                    DirectMatchIndices(self.valid_actions, LowerText(clean_response)))
    IN Cleaned(Strip(text_response.s))

\* the block under "if supports_json_response": out is "return" or "text"
QueryJson(self, text_response) ==
    LET text == [out |-> "text", ret |-> PyNone]
        Validated(chosen_action) ==
            IF InActions(self.valid_actions, chosen_action)
            THEN [out |-> "return", ret |-> chosen_action]
            ELSE IF chosen_action = Str(<<"None">>)
            THEN [out |-> "return", ret |-> PyNone]
            ELSE [out |-> "return", ret |-> text_response]
        Decoded(json_data) ==
            IF ~json_data.ok THEN text
            ELSE Validated(ChosenAction(self.valid_actions, json_data.d))
        FirstLoad(json_str, first) ==
            IF first.ok THEN Decoded(first)
            ELSE Decoded(ExtractPartial(self.valid_actions, json_str))
        Truncated(json_str) == FirstLoad(json_str, JsonLoads(json_str))
    IN IF ~StartsWithBrace(Strip(text_response.s)) THEN text
       ELSE Truncated(BraceTruncate(Strip(text_response.s)))

\* _query_model once requests.post has returned a reply
QueryReply(self, prompt, outcome) ==
    LET supports_json_response ==
            ~(~self.json_schema_support /\ prompt.response_format # "absent")
        Processed(j) ==
            IF j.out = "return"
            THEN [raised |-> FALSE, ret |-> j.ret, posts |-> 1]
            ELSE [raised |-> FALSE, ret |-> QueryText(self, outcome.content), posts |-> 1]
    IN IF outcome.kind = "status" /\ outcome.code # "200"
       THEN [raised |-> FALSE, ret |-> ErrorStatus(self, outcome.code), posts |-> 1]
       ELSE IF outcome.kind \in {"no_choices", "empty_choices"}
       THEN [raised |-> FALSE, ret |-> ErrorParsing, posts |-> 1]
       ELSE IF ~IsStr(outcome.content)
       THEN \* text_response.strip() raises AttributeError
            [raised |-> TRUE, ret |-> PyNone, posts |-> 1]
       ELSE Processed(IF supports_json_response
                      THEN QueryJson(self, outcome.content)
                      ELSE [out |-> "text", ret |-> PyNone])

\* a transport that tries a second time after a connection failure or timeout
QueryModelRetrying(self, prompt, outcome) ==
    IF outcome.kind \in {"refused", "timeout"}
    THEN [raised |-> FALSE, ret |-> ErrorConnecting, posts |-> 2]
    ELSE QueryReply(self, prompt, outcome)

_query_model(self, prompt, outcome) ==
    IF outcome.kind \in {"refused", "timeout"}
    THEN \* requests.RequestException
         [raised |-> FALSE, ret |-> ErrorConnecting, posts |-> 1]
    ELSE QueryReply(self, prompt, outcome)

(***************************************************************************)
(* Frames, fingerprints and the frame cache                                *)
(***************************************************************************)
NumFrames == 2

Frame(n) == [t |-> "img", s |-> <<n>>]

Frames == { Frame(n) : n \in 1..NumFrames }

\* _calculate_frame_similarity in percent: identical frames give 100
_calculate_frame_similarity(frame1, frame2) ==
    IF frame1 = frame2 THEN 100
    ELSE IF frame1.s[1] - frame2.s[1] \in {-1, 1} THEN 97
    ELSE 50

\* a fingerprint function that yields no digest
FrameHashMissing(frame) == PyNone

_calculate_frame_hash(frame) == [t |-> "md5", s |-> frame.s]

_prepare_image(frame) == [t |-> "png", s |-> frame.s]

\* the files _save_frame_to_cache writes when called after the turn counter is turn_count
_save_frame_to_cache(self, turn_count, frame_hash) ==
    LET action == "Unknown"
        important_actions == {"A", "Start", "Select"}
        \* no important action name is a substring of "Unknown"
        should_save == (turn_count % 10 = 0) \/ (\E a \in important_actions : a = action)
    IN IF ~self.enable_cache THEN {}
       ELSE IF should_save THEN { [hash |-> frame_hash, action |-> action] }
       ELSE {}

(***************************************************************************)
(* LLMAgent.decide_action                                                  *)
(*   The result holds the value returned (ret) or raised = TRUE, the       *)
(*   number of transport calls made (posts) and the agent's attributes     *)
(*   when the method is left.                                              *)
(***************************************************************************)
\* a trim that drops the newest entries instead of the oldest
TrimNewest(message_history, max_message_history) ==
    IF Len(message_history) > max_message_history
    THEN SubSeq(message_history, Len(message_history) - max_message_history + 1,
                Len(message_history))
    ELSE message_history

RECURSIVE Trim(_, _)
\* while len(self.message_history) > self.max_message_history: pop()
Trim(message_history, max_message_history) ==
    IF Len(message_history) > max_message_history
    THEN Trim(SubSeq(message_history, 1, Len(message_history) - 1), max_message_history)
    ELSE message_history

\* lines 238-256: the fingerprint after the cache check
Fingerprint(self, frame) ==
    IF self.enable_cache
    THEN [last_frame |-> frame, last_frame_hash |-> _calculate_frame_hash(frame)]
    ELSE [last_frame |-> self.last_frame, last_frame_hash |-> self.last_frame_hash]

\* a resolution that hands back any response that does not look like JSON
ResolveResponseRaw(self, response) ==
    IF /\ Truthy(response)
       /\ StartsWithBrace(Strip(response.s))
       /\ EndsWithBrace(Strip(response.s))
    THEN parse_action(self, response)
    ELSE [raised |-> FALSE, ret |-> response, summary |-> self.summary]

\* lines 271-285: the response turned into valid_action
ResolveResponse(self, response) ==
    IF /\ Truthy(response)
       /\ StartsWithBrace(Strip(response.s))
       /\ EndsWithBrace(Strip(response.s))
    THEN parse_action(self, response)
    ELSE IF InActions(self.valid_actions, response)
    THEN [raised |-> FALSE, ret |-> response, summary |-> self.summary]
    ELSE parse_action(self, response)

\* lines 294-305: [raised, summary]
ExtractSummary(summary, response) ==
    LET Extracted(json_data) ==
            IF ~json_data.ok \/ ~HasKey(json_data.d, <<"game_summary">>)
            THEN [raised |-> FALSE, summary |-> summary]
            ELSE \* self.summary[:100] raises TypeError unless it is a string
                 [raised |-> ~IsStr(Get(json_data.d, <<"game_summary">>)),
                  summary |-> Get(json_data.d, <<"game_summary">>)]
    IN IF ~(Truthy(response) /\ StartsWithBrace(Strip(response.s)))
       THEN [raised |-> FALSE, summary |-> summary]
       ELSE Extracted(JsonLoads(response.s))

decide_action(self, frame, outcome) ==
    LET frame_number == self.turn_count
        Raised(fp, q) ==
            [raised |-> TRUE, ret |-> PyNone, posts |-> q.posts,
             message_history |-> self.message_history,
             turn_count |-> self.turn_count,
             summary |-> self.summary,
             last_frame |-> fp.last_frame,
             last_frame_hash |-> fp.last_frame_hash,
             saved |-> {}]
        Recorded(fp, q, r, history, x) ==
            IF x.raised
            THEN [Raised(fp, q) EXCEPT !.message_history = history, !.summary = x.summary]
            ELSE [raised |-> FALSE, ret |-> r.ret, posts |-> q.posts,
                  message_history |-> history,
                  turn_count |-> self.turn_count + 1,
                  summary |-> x.summary,
                  last_frame |-> fp.last_frame,
                  last_frame_hash |-> fp.last_frame_hash,
                  saved |-> IF self.enable_cache /\ fp.last_frame_hash # PyNone
                            THEN _save_frame_to_cache(self, self.turn_count + 1,
                                                      fp.last_frame_hash)
                            ELSE {}]
        Resolved(fp, q, r) ==
            IF r.raised THEN Raised(fp, q)
            ELSE Recorded(fp, q, r,
                          Trim(<<[action |-> r.ret, frame |-> frame_number]>>
                                 \o self.message_history,
                               self.max_message_history),
                          ExtractSummary(r.summary, q.ret))
        \* the response, the resolution and the fingerprint are each computed once
        Queried(fp, q) ==
            IF q.raised THEN Raised(fp, q)
            ELSE CHOOSE d \in { Resolved(fp, q, r) : r \in {ResolveResponse(self, q.ret)} } : TRUE
    IN CHOOSE d \in { Queried(fp, q) :
                         fp \in {Fingerprint(self, frame)},
                         q \in {_query_model(self, _construct_prompt(self, _prepare_image(frame)),
                                              outcome)} } : TRUE

(***************************************************************************)
(* Action sets, configurations and model replies                           *)
(***************************************************************************)
\* DEFAULT_ACTIONS of constants.py
DefaultActions ==
    << <<"Up">>, <<"Down">>, <<"Left">>, <<"Right">>, <<"A">>, <<"B">>, <<"Start">>, <<"Select">> >>

\* the actions of the N64 input mapping, in its order
N64Actions ==
    << <<"A">>, <<"B">>, <<"Z">>, <<"Up">>, <<"Down">>, <<"Left">>, <<"Right">>,
       <<"C", "-", "Up">>, <<"C", "-", "Down">>, <<"C", "-", "Left">>, <<"C", "-", "Right">>,
       <<"L">>, <<"R">>, <<"Start">> >>

ActionSets == {DefaultActions, N64Actions}

RECURSIVE Words(_)
\* the text of the words of ws separated by single spaces
Words(ws) ==
    IF Len(ws) <= 1 THEN ws ELSE <<Head(ws), "sp">> \o Words(Tail(ws))

Quoted(s) == <<"dq">> \o s \o <<"dq">>

\* the JSON text of one member: key and the text of its value
Member(key, valueText) == Quoted(<<key>>) \o <<":">> \o valueText

RECURSIVE Members(_)
Members(ms) ==
    IF ms = <<>> THEN <<>>
    ELSE IF Len(ms) = 1 THEN Head(ms)
    ELSE Head(ms) \o <<",">> \o Members(Tail(ms))

Object(ms) == <<"{">> \o Members(ms) \o <<"}">>

\* transport outcomes
Outcome(kind, code, content) == [kind |-> kind, code |-> code, content |-> content]

Reply(text) == Outcome("content", "200", Str(text))

TransportFailures ==
    { Outcome("refused", "", PyNone),
      Outcome("timeout", "", PyNone),
      Outcome("status", "500", PyNone),
      Outcome("no_choices", "200", PyNone),
      Outcome("empty_choices", "200", PyNone),
      Outcome("content", "200", PyNone),
      Outcome("content", "200", Num(<<"5">>)) }

StartReply ==
    Object(<< Member("action", Quoted(<<"Start">>)),
              Member("reasoning", Quoted(Words(<<"begin", "the", "game">>))),
              Member("game_summary", Quoted(Words(<<"at", "title", "screen">>))) >>)

WaitReply ==
    Object(<< Member("action", Quoted(<<"None">>)), Member("reasoning", Quoted(<<"wait">>)) >>)

TrailingReply ==
    Object(<< Member("action", Quoted(<<"A">>)), Member("reasoning", Quoted(<<"go">>)) >>)
    \o <<"sp", "trailing", "sp", "garbage">>

BraceInStringReply ==
    Object(<< Member("reasoning", Quoted(<<"}">>)), Member("action", Quoted(<<"A">>)) >>)
    \o <<"sp", "press", "sp", "Up">>

\* the replies of the model the agent is run on
AgentReplies ==
    { <<"A">>,
      <<"c", "-", "up">>,
      Words(<<"Invalid", "action">>),
      <<>>,
      StartReply,
      WaitReply,
      TrailingReply,
      BraceInStringReply,
      Object(<< Member("action", Quoted(<<"Jump">>)), Member("game_summary", Quoted(<<"y">>)) >>),
      Object(<< Member("action", Quoted(<<"Jump">>)), Member("game_summary", <<"null">>) >>),
      Object(<< Member("action", Quoted(<<"A">>)), Member("reasoning", <<"5">>) >>) }

Outcomes == TransportFailures \cup { Reply(t) : t \in AgentReplies }

\* the configurations the agent is constructed with
Config(provider, backend, enable_cache, max_message_history) ==
    [ provider |-> provider, backend |-> backend, json_schema_support |-> TRUE,
      autostart_server |-> FALSE, try_json_schema |-> TRUE,
      enable_cache |-> enable_cache, max_message_history |-> max_message_history ]

MaxHistory == 2

MaxCalls == 4

\* the agents constructed: configuration, action set, summary mode
Setup(config, actions, summary_mode) ==
    [model_config |-> config, valid_actions |-> actions, use_summary |-> summary_mode]

Setups ==
    { Setup(Config("local", "vllm", TRUE, MaxHistory), DefaultActions, FALSE),
      Setup(Config("openai", "", FALSE, 1), DefaultActions, TRUE),
      Setup(Config("local", "llama.cpp", TRUE, 1), N64Actions, TRUE),
      Setup(Config("anthropic", "", TRUE, 0), N64Actions, FALSE) }

(***************************************************************************)
(* The agent as a state machine                                            *)
(***************************************************************************)
VARIABLES
    model_config,      \* the configuration given to __init__
    valid_actions,     \* self.valid_actions
    use_summary,       \* self.use_summary
    message_history,   \* self.message_history, most recent first
    turn_count,        \* self.turn_count
    summary,           \* self.summary
    last_frame,        \* self.last_frame
    last_frame_hash,   \* self.last_frame_hash
    cache_files,       \* the files written to cache_dir
    calls,             \* number of decide_action calls made
    completed,         \* number of decide_action calls that returned
    last,              \* the last call: operation, input, result
    loop,              \* the game loop of play.main: position, turn, emulator calls
    _server_process,   \* llama_cpp/server.py: the module-level handle
    processes          \* the subprocesses launched so far, by pid: their state

vars == << model_config, valid_actions, use_summary, message_history, turn_count, summary,
           last_frame, last_frame_hash, cache_files, calls, completed, last, loop,
           _server_process, processes >>

\* the state of the module llama_cpp/server.py
Server == << _server_process, processes >>

Self ==
    [ valid_actions |-> valid_actions,
      use_summary |-> use_summary,
      provider |-> model_config.provider,
      backend |-> model_config.backend,
      json_schema_support |-> model_config.json_schema_support,
      autostart_server |-> model_config.autostart_server,
      try_json_schema |-> model_config.try_json_schema,
      enable_cache |-> model_config.enable_cache,
      max_message_history |-> model_config.max_message_history,
      message_history |-> message_history,
      turn_count |-> turn_count,
      summary |-> summary,
      last_frame |-> last_frame,
      last_frame_hash |-> last_frame_hash ]

NoCall ==
    [ op |-> "init", arg |-> Outcome("", "", PyNone), similarity |-> -1,
      raised |-> FALSE, ret |-> PyNone, posts |-> 0 ]

\* no game loop is running
NoLoop ==
    [ pc |-> "none", max_turns |-> 0, start |-> 0, turn_count |-> 0, frame |-> PyNone,
      action_text |-> PyNone, action |-> PyNone, captured |-> 0, decided |-> 0,
      sends |-> 0, sent |-> PyNone, closes |-> 0, ended |-> "" ]

\* LLMAgent.__init__
Init ==
    /\ \E setup \in Setups :
          /\ model_config = setup.model_config
          /\ valid_actions = setup.valid_actions
          /\ use_summary = setup.use_summary
    /\ message_history = <<>>
    /\ turn_count = 0
    /\ summary = Str(<<>>)
    /\ last_frame = PyNone
    /\ last_frame_hash = PyNone
    /\ cache_files = {}
    /\ calls = 0
    /\ completed = 0
    /\ last = NoCall
    /\ loop = NoLoop
    /\ _server_process = PyNone
    /\ processes = << >>

\* one call of decide_action(frame) during which the transport behaves as outcome
DecideAction(frame, outcome) ==
    /\ calls < MaxCalls
    /\ \E d \in {decide_action(Self, frame, outcome)} :
          /\ message_history' = d.message_history
          /\ turn_count' = d.turn_count
          /\ summary' = d.summary
          /\ last_frame' = d.last_frame
          /\ last_frame_hash' = d.last_frame_hash
          /\ cache_files' = cache_files \cup d.saved
          /\ calls' = calls + 1
          /\ completed' = IF d.raised THEN completed ELSE completed + 1
          /\ last' = [ op |-> "decide", arg |-> outcome,
                       similarity |-> IF model_config.enable_cache /\ last_frame # PyNone
                                      THEN _calculate_frame_similarity(frame, last_frame)
                                      ELSE -1,
                       raised |-> d.raised, ret |-> d.ret, posts |-> d.posts ]
    /\ UNCHANGED << model_config, valid_actions, use_summary >>

\* one call of parse_action(action_text) from outside the agent
ParseAction(action_text) ==
    /\ \E p \in {parse_action(Self, action_text)} :
          /\ summary' = p.summary
          /\ last' = [ op |-> "parse", arg |-> Outcome("text", "", action_text),
                       similarity |-> -1,
                       raised |-> p.raised, ret |-> p.ret, posts |-> 0 ]
    /\ UNCHANGED << model_config, valid_actions, use_summary, message_history, turn_count,
                    last_frame, last_frame_hash, cache_files, calls, completed >>

\* LLMAgent.clear_cache
ClearCache ==
    /\ last_frame' = PyNone
    /\ last_frame_hash' = PyNone
    /\ last' = [NoCall EXCEPT !.op = "clear"]
    /\ UNCHANGED << model_config, valid_actions, use_summary, message_history, turn_count,
                    summary, cache_files, calls, completed, loop, Server >>

Next ==
    \/ \E frame \in Frames, outcome \in Outcomes :
          DecideAction(frame, outcome) /\ UNCHANGED << loop, Server >>
    \/ ClearCache

Spec == Init /\ [][Next]_vars

(***************************************************************************)
(* parse_action on its own: the responses it is given                      *)
(***************************************************************************)
\* every action name of the action sets
ActionNames == UNION { { actions[i] : i \in 1..Len(actions) } : actions \in ActionSets }

CaseVariants(name) == {name, LowerText(name), UpperText(name)}

\* free-text responses
Sentences ==
    { Words(<<"Invalid", "action">>),
      <<"Jump">>,
      Words(<<"Press", "A", "to", "select">>),
      Words(<<"Go", "left", "to", "exit">>),
      Words(<<"Move", "down", "to", "the", "next", "option">>),
      Words(<<"Push", "B", "to", "cancel">>),
      Words(<<"I", "think", "you", "should", "press", "A", "to", "continue">>),
      Words(<<"press", "B", "to", "open", "a", "menu">>),
      Words(<<"press", "jump">>),
      Words(<<"compress", "up">>),
      Words(<<"move", "upward">>),
      Words(<<"button", "B">>),
      <<>>,
      <<"sp">> }

ReasoningTexts == { <<"x">>, Words(<<"go", "up">>) }

\* the members that may follow "action" in a reply: none, reasoning, game_summary
OptionalMembers ==
    { <<>> }
    \cup { << Member("reasoning", Quoted(r)) >> : r \in ReasoningTexts }
    \cup { << Member("reasoning", Quoted(r)), Member("game_summary", Quoted(<<"y">>)) >> :
             r \in ReasoningTexts }

\* well-formed replies whose action is a name of some action set
ActionReplies ==
    { Object(<< Member("action", Quoted(a)) >> \o rest) : a \in ActionNames, rest \in OptionalMembers }
    \cup { Object(<< Member("reasoning", Quoted(r)), Member("action", Quoted(a)) >>) :
             a \in {<<"A">>, <<"Start">>, <<"C", "-", "Up">>}, r \in ReasoningTexts }

\* replies whose action is no action name, or that carry values that are not strings
OtherReplies ==
    { Object(<< Member("action", v) >> \o rest) :
        v \in { Quoted(<<"None">>), Quoted(<<"Jump">>), <<"5">> },
        rest \in { <<>>,
                   << Member("reasoning", Quoted(<<"wait">>)) >>,
                   << Member("reasoning", Quoted(Words(<<"go", "up">>))) >>,
                   << Member("game_summary", Quoted(<<"y">>)) >>,
                   << Member("game_summary", <<"null">>) >> } }
    \cup { Object(<< Member("action", Quoted(<<"A">>)), Member("reasoning", <<"5">>) >>),
           Object(<< Member("reasoning", Quoted(<<"x">>)) >>),
           Object(<< Member("Action", Quoted(<<"A">>)) >>),
           <<"{", "sq", "action", "sq", ":", "sq", "A", "sq", "}">>,
           <<"{">> \o Member("action", Quoted(<<"B">>)),
           WaitReply, StartReply, TrailingReply, BraceInStringReply }

ParseTexts ==
    UNION { CaseVariants(name) : name \in ActionNames }
    \cup Sentences \cup ActionReplies \cup OtherReplies

ParseArgs == {PyNone} \cup { Str(t) : t \in ParseTexts }

NextParse == \E action_text \in ParseArgs : ParseAction(action_text) /\ UNCHANGED << loop, Server >>

SpecParse == Init /\ [][NextParse]_vars

(***************************************************************************)
(* Properties of decide_action                                             *)
(***************************************************************************)
\* the entry a call of decide_action inserts, and the history after the trim
Inserted(ret) == [action |-> ret, frame |-> turn_count]

HistoryAfter(ret) ==
    LET h == <<Inserted(ret)>> \o message_history
    IN SubSeq(h, 1, IF Len(h) < model_config.max_message_history
                    THEN Len(h) ELSE model_config.max_message_history)

\* C1: whatever the action set and the model response, the value decide_action
\* returns is a member of valid_actions or the no-action value None; the raw
\* response text or a name outside valid_actions is never returned.
C1_ReturnsValidActionOrNone ==
    (last.op = "decide" /\ ~last.raised) =>
        (last.ret = PyNone \/ InActions(valid_actions, last.ret))

\* a call answered with an HTTP 500 returned None, not the error string
C1_Witness ==
    /\ last.op = "decide"
    /\ last.arg.kind = "status"
    /\ ~last.raised
    /\ last.ret = PyNone

\* C2: every call of decide_action invokes the transport exactly once: it is
\* not skipped when the frame resembles the previous one and not repeated
\* after a transport failure or a timeout.
C2_OneTransportCall == last.op = "decide" => last.posts = 1

\* a call on a frame identical to the previous one whose request timed out
C2_Witness ==
    /\ last.op = "decide"
    /\ last.similarity = 100
    /\ last.arg.kind = "timeout"
    /\ last.posts = 1

\* C3: while every call has completed, message_history holds one entry per
\* call up to max_message_history entries, most recent first, with the turn
\* indices turn_count-1, turn_count-2, ... and the last returned action first.
C3_HistoryBounded ==
    completed = calls =>
        /\ turn_count = calls
        /\ Len(message_history) = IF turn_count < model_config.max_message_history
                                  THEN turn_count ELSE model_config.max_message_history
        /\ \A i \in 1..Len(message_history) : message_history[i].frame = turn_count - i
        /\ (last.op = "decide" /\ message_history # <<>>) => message_history[1].action = last.ret

\* more completed calls than the history keeps, and the history is full
C3_Witness ==
    /\ completed = calls
    /\ model_config.max_message_history >= 2
    /\ calls > model_config.max_message_history
    /\ Len(message_history) = model_config.max_message_history
    /\ message_history[1].action # message_history[2].action

\* C4: every call of decide_action increments turn_count by one and inserts
\* exactly one history entry for the turn, whatever the outcome of the call.
C4_EveryCallAdvancesTurn ==
    [][calls' = calls + 1 =>
          /\ turn_count' = turn_count + 1
          /\ message_history' = HistoryAfter(last'.ret)]_vars

\* C5: no per-turn failure makes decide_action raise: refused connections,
\* timeouts, non-200 statuses, malformed envelopes and JSON replies with values
\* that are not strings all end in a returned value.
C5_NeverRaises == last.op = "decide" => ~last.raised

\* C10: a reply that is a well-formed JSON object with a valid action followed
\* by trailing text resolves to that action; the trailing text has no influence.
C10_TrailingTextIgnored ==
    (last.op = "decide" /\ last.arg.kind = "content" /\ IsStr(last.arg.content)) =>
        \A k \in 1..(Len(last.arg.content.s) - 1) :
            \A object \in {JsonLoads(SubSeq(last.arg.content.s, 1, k))} :
               (/\ object.ok
                /\ HasKey(object.d, <<"action">>)
                /\ InActions(valid_actions, Get(object.d, <<"action">>)))
               => (~last.raised /\ last.ret = Get(object.d, <<"action">>))

(***************************************************************************)
(* Properties of parse_action                                              *)
(***************************************************************************)
\* some action name occurs in text, as a word or at the start of a word
MentionsAction(actions, text) ==
    \/ \E i \in 1..Len(actions), k \in 1..Len(text) :
          MatchAt(LowerText(text), k, LowerText(actions[i]))
    \/ \E i \in 1..Len(actions), k \in 1..Len(text) :
          /\ DirectionPrefix(Lower(text[k])) # ""
          /\ <<DirectionPrefix(Lower(text[k]))>> = LowerText(actions[i])

\* the text asks for no action by name
MentionsNone(text) == \E k \in 1..Len(text) : Lower(text[k]) = "none"

\* the last call was parse_action on a string
ParsedText == last.op = "parse" /\ IsStr(last.arg.content)

\* C6: the value returned for a response that explicitly chooses the action
\* "None" differs from the value returned for a response from which no action
\* could be determined.
C6_NoActionDistinctFromUndetermined ==
    (/\ ParsedText
     /\ ~last.raised
     /\ ~MentionsAction(valid_actions, last.arg.content.s)
     /\ ~MentionsNone(last.arg.content.s))
    => last.ret # parse_action(Self, Str(WaitReply)).ret

\* C7: a response that is empty, only whitespace, or names no action of
\* valid_actions resolves to no action.
C7_NoActionNameResolvesToNone ==
    (/\ last.op = "parse"
     /\ IsStr(last.arg.content) => ~MentionsAction(valid_actions, last.arg.content.s))
    => (~last.raised /\ last.ret = PyNone)

\* C8: a well-formed JSON response whose action is a member of valid_actions
\* resolves to that member whatever its reasoning and game_summary strings say.
C8_JsonActionWins ==
    ParsedText =>
        \A object \in {JsonLoads(last.arg.content.s)} :
           (/\ object.ok
            /\ HasKey(object.d, <<"action">>)
            /\ InActions(valid_actions, Get(object.d, <<"action">>))
            /\ HasKey(object.d, <<"reasoning">>) => IsStr(Get(object.d, <<"reasoning">>))
            /\ HasKey(object.d, <<"game_summary">>) => IsStr(Get(object.d, <<"game_summary">>)))
           => (~last.raised /\ last.ret = Get(object.d, <<"action">>))

\* a reply choosing "A" whose reasoning names another action resolved to "A"
C8_Witness ==
    /\ ParsedText
    /\ last.arg.content.s =
          Object(<< Member("action", Quoted(<<"A">>)),
                    Member("reasoning", Quoted(Words(<<"go", "up">>))),
                    Member("game_summary", Quoted(<<"y">>)) >>)
    /\ InActions(valid_actions, Str(<<"Up">>))
    /\ last.ret = Str(<<"A">>)

\* C9: a response that is a case variant of the name of a member of
\* valid_actions resolves to that member, also when another member's name
\* occurs as a word inside it.
C9_CaseVariantResolves ==
    ParsedText =>
        \A i \in 1..Len(valid_actions) :
            LowerText(last.arg.content.s) = LowerText(valid_actions[i])
            => (~last.raised /\ last.ret = Str(valid_actions[i]))

\* C11: a well-formed JSON response whose action is a string that is neither
\* a member of valid_actions nor "None" resolves to no action; action names in
\* the rest of the response do not turn it into an action.
C11_UnknownJsonActionUndetermined ==
    ParsedText =>
        \A object \in {JsonLoads(last.arg.content.s)} :
           (/\ object.ok
            /\ HasKey(object.d, <<"action">>)
            /\ IsStr(Get(object.d, <<"action">>))
            /\ ~InActions(valid_actions, Get(object.d, <<"action">>))
            /\ Get(object.d, <<"action">>) # Str(<<"None">>)
            /\ HasKey(object.d, <<"reasoning">>) => IsStr(Get(object.d, <<"reasoning">>))
            /\ HasKey(object.d, <<"game_summary">>) => IsStr(Get(object.d, <<"game_summary">>)))
           => (~last.raised /\ last.ret = PyNone)

(***************************************************************************)
(* Properties of the running summary                                       *)
(***************************************************************************)
\* C12: with summary mode enabled, when the reply of the model endpoint is a
\* JSON object carrying a game_summary string, the running summary equals that
\* string after decide_action returns, whether or not the action is valid.
C12_SummaryFollowsReply ==
    (/\ last.op = "decide"
     /\ use_summary
     /\ last.arg.kind = "content"
     /\ IsStr(last.arg.content))
    => \A object \in {JsonLoads(last.arg.content.s)} :
          (/\ object.ok
           /\ HasKey(object.d, <<"game_summary">>)
           /\ IsStr(Get(object.d, <<"game_summary">>)))
          => (~last.raised /\ summary = Get(object.d, <<"game_summary">>))

\* C18: with summary mode disabled, no call of decide_action changes the
\* running summary, whatever the model response contains.
C18_SummaryUnchangedWhenDisabled ==
    [][(~use_summary /\ calls' = calls + 1) => summary' = summary]_vars

(***************************************************************************)
(* The request of a turn, for every provider and backend                   *)
(***************************************************************************)
\* lines 787-798 and 833-838: the request handed to requests.post
SentRequest(self, prompt) ==
    IF ~self.json_schema_support /\ prompt.response_format # "absent"
    THEN [prompt EXCEPT !.response_format = "absent"]
    ELSE prompt

\* the request decide_action builds and sends for frame in the current state
Request(frame) == SentRequest(Self, _construct_prompt(Self, _prepare_image(frame)))

Providers == {"openai", "anthropic", "mistral", "custom", "local"}

Backends(provider) == IF provider = "local" THEN {"llama.cpp", "vllm"} ELSE {""}

\* the configurations requests are built for
PromptConfigs ==
    { [ Config(provider, backend, TRUE, max) EXCEPT
          !.json_schema_support = json_schema_support,
          !.autostart_server = autostart_server,
          !.try_json_schema = try_json_schema ] :
        provider \in Providers, backend \in {"", "llama.cpp", "vllm"},
        max \in {0, 1, MaxHistory},
        json_schema_support \in BOOLEAN, autostart_server \in BOOLEAN,
        try_json_schema \in BOOLEAN }

PromptSetups ==
    { Setup(config, DefaultActions, summary_mode) :
        config \in { c \in PromptConfigs :
                       /\ c.backend \in Backends(c.provider)
                       /\ (c.backend # "llama.cpp") => (~c.autostart_server /\ c.try_json_schema) },
        summary_mode \in BOOLEAN }

PromptOutcomes == { Reply(<<"A">>), Reply(StartReply), Outcome("timeout", "", PyNone) }

\* LLMAgent.__init__ for the configurations of PromptSetups
InitPrompt ==
    /\ \E setup \in PromptSetups :
          /\ model_config = setup.model_config
          /\ valid_actions = setup.valid_actions
          /\ use_summary = setup.use_summary
    /\ message_history = <<>>
    /\ turn_count = 0
    /\ summary = Str(<<>>)
    /\ last_frame = PyNone
    /\ last_frame_hash = PyNone
    /\ cache_files = {}
    /\ calls = 0
    /\ completed = 0
    /\ last = NoCall
    /\ loop = NoLoop
    /\ _server_process = PyNone
    /\ processes = << >>

NextPrompt ==
    \E frame \in Frames, outcome \in PromptOutcomes :
        DecideAction(frame, outcome) /\ UNCHANGED << loop, Server >>

SpecPrompt == InitPrompt /\ [][NextPrompt]_vars

(***************************************************************************)
(* Properties of the request                                               *)
(***************************************************************************)
\* the index in request.messages of the user message of the current turn
LiveTurn(request) ==
    IF model_config.provider = "anthropic"
    THEN Len(request.messages) - 1
    ELSE Len(request.messages)

\* the number of messages in front of the history pairs
Preamble == IF model_config.provider = "anthropic" THEN 0 ELSE 1

\* C13: for provider anthropic the request carries the system text under a
\* top-level system key and no message has role "system"; for every other
\* provider the system text is the first message and there is no system key.
C13_SystemPlacement ==
    \A frame \in Frames : \A request \in {Request(frame)} :
        IF model_config.provider = "anthropic"
        THEN /\ request.system # "absent"
             /\ \A i \in 1..Len(request.messages) : request.messages[i].role # "system"
        ELSE /\ request.system = "absent"
             /\ request.messages[1].role = "system"
             /\ \A i \in 2..Len(request.messages) : request.messages[i].role # "system"

\* an anthropic agent whose history is full
C13_Witness ==
    /\ model_config.provider = "anthropic"
    /\ calls > MaxHistory
    /\ Len(message_history) = MaxHistory

\* C15: when json_schema_support is false the request sent has no
\* response_format and, for anthropic, no format instruction in the system
\* text; when it is true every non-anthropic request has a response_format.
C15_ResponseFormatFollowsSupport ==
    \A frame \in Frames : \A request \in {Request(frame)} :
        /\ ~model_config.json_schema_support =>
              /\ request.response_format = "absent"
              /\ request.system # "system+format"
        /\ (model_config.json_schema_support /\ model_config.provider # "anthropic") =>
              request.response_format # "absent"

\* an agent without schema support on the llama.cpp backend that has sent a request
C15_Witness ==
    /\ ~model_config.json_schema_support
    /\ model_config.backend = "llama.cpp"
    /\ model_config.try_json_schema
    /\ last.op = "decide"
    /\ last.posts = 1

\* C19: each retained history entry is rendered as an assistant message with
\* the action followed by a user message, the pairs are in chronological order
\* (oldest retained turn first) and sit between the system message and the
\* user message of the current turn.
C19_HistoryChronological ==
    \A frame \in Frames : \A request \in {Request(frame)} :
        /\ LiveTurn(request) = Preamble + 2 * Len(message_history) + 1
        /\ \A j \in 1..Len(message_history) :
              /\ request.messages[Preamble + 2 * j - 1].role = "assistant"
              /\ request.messages[Preamble + 2 * j - 1].action =
                    message_history[Len(message_history) + 1 - j].action
              /\ request.messages[Preamble + 2 * j].role = "user"
              /\ request.messages[Preamble + 2 * j].content = "next"

\* C20: exactly one message of the request carries an image, and it is the
\* user message of the current turn, whatever the provider and history length.
C20_OneImage ==
    \A frame \in Frames : \A request \in {Request(frame)} :
        /\ request.messages[LiveTurn(request)].role = "user"
        /\ request.messages[LiveTurn(request)].content = "frame"
        /\ \A i \in 1..Len(request.messages) :
              request.messages[i].image <=> (i = LiveTurn(request))

\* a request built after more turns than the history keeps
C20_Witness ==
    /\ Len(message_history) = MaxHistory
    /\ calls > MaxHistory
    /\ last.op = "decide"
    /\ model_config.provider = "mistral"

(***************************************************************************)
(* Properties of the context phrases of parse_action                       *)
(***************************************************************************)
\* text holds the phrase "press X", "push X", "move X" or "go X" at position k
\* with X the name, in any case, of valid_actions[i]
PhraseAt(actions, text, k, i) ==
    /\ k + 2 <= Len(text)
    /\ Lower(text[k]) \in {"press", "push", "move", "go"}
    /\ IsSpace(text[k + 1])
    /\ MatchAt(LowerText(text), k + 2, LowerText(actions[i]))
    /\ Boundary(text, k + 2 + Len(actions[i]))

\* C14: a free-text response that contains "press X", "push X", "move X" or
\* "go X", X naming a member of valid_actions in any case, resolves to that
\* member whatever else the text says and whatever the order of valid_actions.
C14_ContextPhraseResolves ==
    (ParsedText /\ ~StartsWithBrace(Strip(last.arg.content.s))) =>
        \A k \in 1..Len(last.arg.content.s), i \in 1..Len(valid_actions) :
            PhraseAt(valid_actions, last.arg.content.s, k, i)
            => (~last.raised /\ last.ret = Str(valid_actions[i]))

(***************************************************************************)
(* Construction of the agent: __init__ and _maybe_start_server             *)
(***************************************************************************)
\* str.split(sep) from position i on, sep not empty; cur is the piece being read
RECURSIVE SplitFrom(_, _, _, _)
SplitFrom(text, sep, i, cur) ==
    IF i > Len(text) THEN << cur >>
    ELSE IF MatchAt(text, i, sep)
         THEN << cur >> \o SplitFrom(text, sep, i + Len(sep), << >>)
         ELSE SplitFrom(text, sep, i + 1, Append(cur, text[i]))

Split(text, sep) == SplitFrom(text, sep, 1, << >>)

\* the texts int() accepts, out of the port texts of ApiUrls
IntTexts == { << "8000" >>, << "8080" >> }

HostPort(host, port) == [ok |-> TRUE, host |-> host, port |-> port]

NoHostPort == [ok |-> FALSE, host |-> << >>, port |-> << >>]

\* a host/port parse that falls back to the defaults instead of failing
ParseHostPortDefaulting(api_url) == HostPort(<< "127.0.0.1" >>, << "8000" >>)

\* the try block of _maybe_start_server: host and port out of api_url
ParseHostPort(api_url) ==
    LET Pieces(byScheme, byColon) ==
            IF Len(byScheme) < 2 THEN NoHostPort
            ELSE LET Parsed(host_part, port_text) ==
                         IF port_text \notin IntTexts THEN NoHostPort
                         ELSE HostPort(IF host_part = << "localhost" >>
                                       THEN << "127.0.0.1" >> ELSE host_part,
                                       port_text)
                 IN Parsed(Split(byScheme[2], << ":" >>)[1],
                           Split(byColon[Len(byColon)], << "/" >>)[1])
    IN Pieces(Split(api_url, << ":", "/", "/" >>), Split(api_url, << ":" >>))

\* max_retries of the verification loop
max_retries == 10

\* llama_cpp_server.check_server_status(host, port): a GET that has no host fails
check_server_status(env, host) == env.failing < max_retries /\ host # << >>

\* llama_cpp_server.start_server: the exception it ends with, "" when it returns
start_server(env, host) ==
    IF env.server = "running" THEN ""
    ELSE IF ~env.model_file THEN "FileNotFoundError"
    ELSE IF env.server = "up" /\ host # << >> THEN ""
    ELSE IF env.server = "exited" THEN "RuntimeError"
    ELSE "TimeoutError"

Started(raised, started, checks) == [raised |-> raised, started |-> started, checks |-> checks]

\* LLMAgent._maybe_start_server in environment env
_maybe_start_server(self, env) ==
    IF self.provider # "local" THEN Started("", FALSE, 0)
    ELSE IF ~self.model_config.autostart_server THEN Started("", FALSE, 0)
    ELSE IF self.backend = "llama.cpp"
    THEN IF self.model_config.model_path \in {PyNone, Str(<< >>)}
         THEN Started("ValueError", FALSE, 0)
         ELSE IF ~env.model_file THEN Started("FileNotFoundError", FALSE, 0)
         ELSE LET Serve(hp) ==
                      IF ~hp.ok THEN Started("ValueError", FALSE, 0)
                      ELSE IF start_server(env, hp.host) # ""
                           THEN Started(start_server(env, hp.host), TRUE, 0)
                           ELSE IF check_server_status(env, hp.host)
                                THEN Started("", TRUE, 1 + env.failing)
                                ELSE Started("ConnectionError", TRUE, max_retries)
              IN Serve(ParseHostPort(self.api_url))
    ELSE Started("", FALSE, 0)

\* LLMAgent.__init__ up to the start of the server, in environment env
Construct(config, env) ==
    LET Begin(self) ==
            IF self.provider = "local" /\ self.backend = "llama.cpp" /\ ~env.llama_cpp_available
            THEN Started("ImportError", FALSE, 0)
            ELSE IF self.provider = "local" THEN _maybe_start_server(self, env)
                 ELSE Started("", FALSE, 0)
    IN Begin([ model_config |-> config,
               provider |-> config.provider,
               api_url |-> IF config.api_url = PyNone
                           THEN << "http", ":", "/", "/", "localhost", ":", "8000" >>
                           ELSE config.api_url.s,
               backend |-> IF config.backend = "auto" /\ config.provider = "local"
                           THEN IF env.system = "Darwin" THEN "llama.cpp" ELSE "vllm"
                           ELSE config.backend ])

\* api_url values: no api_url at all, and texts with and without a scheme, a
\* host, a numeric port and a path
ApiUrls ==
    { PyNone,
      Str(<< "http", ":", "/", "/", "localhost", ":", "8000" >>),
      Str(<< "http", ":", "/", "/", "gpu", ".", "lan", ":", "8080", "/", "v1" >>),
      Str(<< "http", ":", "/", "/", "localhost" >>),
      Str(<< "http", ":", "/", "/", "localhost", "/", "v1" >>),
      Str(<< "http", ":", "/", "/", "localhost", ":" >>),
      Str(<< "http", ":", "/", "/", "localhost", ":", "llama" >>),
      Str(<< "http", ":", "/", "/", ":", "8000" >>),
      Str(<< "localhost", ":", "8000" >>),
      Str(<< "localhost" >>),
      Str(<< >>) }

ModelPaths == { PyNone, Str(<< >>), Str(<< "models", "/", "llava", ".", "gguf" >>) }

ConstructConfigs ==
    { [ provider |-> provider, backend |-> backend, json_schema_support |-> TRUE,
        autostart_server |-> autostart, try_json_schema |-> TRUE,
        enable_cache |-> TRUE, max_message_history |-> MaxHistory,
        model_path |-> model_path, api_url |-> api_url ] :
        provider \in {"local", "openai"},
        backend \in {"auto", "llama.cpp", "vllm"},
        autostart \in BOOLEAN, model_path \in ModelPaths, api_url \in ApiUrls }

\* what the host offers: the llama.cpp module, the platform, the model file,
\* how the server process fares, how many status checks fail before one succeeds
Environments ==
    { [ llama_cpp_available |-> available, system |-> system, model_file |-> model_file,
        server |-> server, failing |-> failing ] :
        available \in BOOLEAN, system \in {"Darwin", "Linux"}, model_file \in BOOLEAN,
        server \in {"running", "up", "exited", "timeout"},
        failing \in {0, max_retries - 1, max_retries} }

\* no agent has been constructed yet
InitConstruct ==
    /\ model_config = PyNone
    /\ valid_actions = << >>
    /\ use_summary = FALSE
    /\ message_history = << >>
    /\ turn_count = 0
    /\ summary = Str(<< >>)
    /\ last_frame = PyNone
    /\ last_frame_hash = PyNone
    /\ cache_files = {}
    /\ calls = 0
    /\ completed = 0
    /\ last = NoCall
    /\ loop = NoLoop
    /\ _server_process = PyNone
    /\ processes = << >>

\* LLMAgent(config, DEFAULT_ACTIONS, False) in environment env, at the start of
\* the program: the agent exists when the constructor returns
NewAgent(config, env) ==
    /\ last.op = "init"
    /\ \E c \in {Construct(config, env)} :
          /\ last' = [ op |-> "__init__", arg |-> [config |-> config, env |-> env],
                       similarity |-> -1, raised |-> c.raised # "", ret |-> PyNone, posts |-> 0,
                       exception |-> c.raised, started |-> c.started, checks |-> c.checks ]
          /\ IF c.raised # ""
             THEN UNCHANGED << model_config, valid_actions, use_summary, message_history,
                               turn_count, summary, last_frame, last_frame_hash >>
             ELSE /\ model_config' = config
                  /\ valid_actions' = DefaultActions
                  /\ use_summary' = FALSE
                  /\ message_history' = << >>
                  /\ turn_count' = 0
                  /\ summary' = Str(<< >>)
                  /\ last_frame' = PyNone
                  /\ last_frame_hash' = PyNone
    /\ UNCHANGED << cache_files, calls, completed, loop, Server >>

NextConstruct == \E config \in ConstructConfigs, env \in Environments : NewAgent(config, env)

SpecConstruct == InitConstruct /\ [][NextConstruct]_vars

(***************************************************************************)
(* Properties of construction                                              *)
(***************************************************************************)
\* api_url is not of the form scheme://host:port with a host and a numeric port
NoHostAndPort(api_url) ==
    \A scheme \in { << "http", ":", "/", "/" >> },
       host \in { << "localhost" >>, << "gpu", ".", "lan" >> },
       port \in IntTexts, path \in { << >>, << "/", "v1" >> } :
        api_url # Str(scheme \o host \o << ":" >> \o port \o path)

\* C16: constructing an agent with provider local raises when the llama.cpp
\* backend is requested but not available, or when autostart is requested with
\* the llama.cpp backend and model_path is missing or api_url has no parseable
\* host and port; constructing an agent with an external provider never starts
\* or contacts a local server.
C16_ConfigurationErrorsRaise ==
    last.op = "__init__" =>
        \A config \in {last.arg.config}, env \in {last.arg.env} :
            /\ (config.provider = "local" /\ config.backend = "llama.cpp"
                    /\ ~env.llama_cpp_available)
               => last.raised
            /\ (config.provider = "local" /\ config.backend = "llama.cpp"
                    /\ config.autostart_server
                    /\ (config.model_path \in {PyNone, Str(<< >>)}
                        \/ (config.api_url # PyNone /\ NoHostAndPort(config.api_url))))
               => last.raised
            /\ config.provider # "local"
               => (~last.raised /\ ~last.started /\ last.checks = 0)

C16_Witness ==
    /\ last.op = "__init__"
    /\ last.arg.config.provider = "local"
    /\ last.arg.config.backend = "llama.cpp"
    /\ last.arg.config.autostart_server
    /\ last.arg.env.llama_cpp_available
    /\ last.arg.env.model_file
    /\ last.arg.env.server = "up"
    /\ last.arg.env.failing = 0
    /\ last.arg.config.model_path \notin {PyNone, Str(<< >>)}
    /\ last.arg.config.api_url = Str(<< "http", ":", "/", "/", "localhost" >>)
    /\ last.exception = "ValueError"
    /\ ~last.started

(***************************************************************************)
(* The delay after an action: determine_delay of the game loop             *)
(***************************************************************************)
\* dict.get(key, default); a dict is a function on its keys
DictGet(dict, key, default) == IF key \in DOMAIN dict THEN dict[key] ELSE default

EmptyDict == [key \in {} |-> 0]

\* ACTION_CATEGORIES, in the order of the dict
ACTION_CATEGORIES ==
    << [name |-> "navigation", actions |-> { Str(<<"Up">>), Str(<<"Down">>), Str(<<"Left">>), Str(<<"Right">>) }],
       [name |-> "confirm", actions |-> { Str(<<"A">>) }],
       [name |-> "cancel", actions |-> { Str(<<"B">>) }],
       [name |-> "menu", actions |-> { Str(<<"Start">>) }],
       [name |-> "special", actions |-> { Str(<<"Select">>) }],
       [name |-> "wait", actions |-> { Str(<<"None">>) }] >>

\* DEFAULT_ACTION_DELAYS, in milliseconds
DEFAULT_ACTION_DELAYS ==
    [ navigation |-> 300, confirm |-> 600, cancel |-> 600, menu |-> 400,
      special |-> 400, wait |-> 200 ]

\* the loop over ACTION_CATEGORIES: the first category that lists the action
RECURSIVE CategoryFrom(_, _)
CategoryFrom(action, i) ==
    IF i > Len(ACTION_CATEGORIES) THEN "default"
    ELSE IF action \in ACTION_CATEGORIES[i].actions THEN ACTION_CATEGORIES[i].name
         ELSE CategoryFrom(action, i + 1)

Category(action) == CategoryFrom(action, 1)

\* determine_delay(game_config, action), delays in milliseconds; action is a
\* Python string or PyNone
determine_delay(game_config, action) ==
    LET timing == DictGet(game_config, "timing", EmptyDict)
        default_delay == DictGet(game_config, "action_delay", 1000)
        action_delays == DictGet(timing, "actions", EmptyDict)
        categories == DictGet(timing, "categories", EmptyDict)
    IN IF action = PyNone THEN DictGet(categories, "wait", 200)
       ELSE IF DOMAIN action_delays # {} /\ action \in DOMAIN action_delays
            THEN action_delays[action]
            ELSE DictGet(categories, Category(action),
                     DictGet(DEFAULT_ACTION_DELAYS, Category(action), default_delay))

\* timing.categories values of game configs
CategoryDelays ==
    { EmptyDict,
      [ navigation |-> 500, confirm |-> 2000, cancel |-> 300, wait |-> 200 ],
      [ menu |-> 700, default |-> 900 ] }

\* timing.actions values of game configs
ActionDelays ==
    { EmptyDict,
      [ a \in { Str(<<"A">>), Str(<<"Start">>) } |-> IF a = Str(<<"A">>) THEN 3000 ELSE 1500 ],
      [ a \in { Str(<<"C", "-", "Up">>) } |-> 250 ] }

Timings ==
    { EmptyDict } \cup
    { [ categories |-> c ] : c \in CategoryDelays } \cup
    { [ actions |-> a ] : a \in ActionDelays } \cup
    { [ categories |-> c, actions |-> a ] : c \in CategoryDelays, a \in ActionDelays }

GameConfigs ==
    { EmptyDict } \cup
    { [ action_delay |-> d ] : d \in {1000, 1500} } \cup
    { [ timing |-> t ] : t \in Timings } \cup
    { [ action_delay |-> d, timing |-> t ] : d \in {1000, 1500}, t \in Timings }

\* the actions the loop executes: the names of the game's actions, "None" and None
LoopActions ==
    { Str(<<"Up">>), Str(<<"Down">>), Str(<<"A">>), Str(<<"B">>), Str(<<"Start">>), Str(<<"Select">>), Str(<<"None">>),
      Str(<<"C", "-", "Up">>), PyNone }

\* one call of determine_delay(game_config, action) by the game loop
DetermineDelay(game_config, action) ==
    /\ last' = [ op |-> "determine_delay",
                 arg |-> [game_config |-> game_config, action |-> action],
                 similarity |-> -1, raised |-> FALSE,
                 ret |-> determine_delay(game_config, action), posts |-> 0 ]
    /\ UNCHANGED << model_config, valid_actions, use_summary, message_history, turn_count,
                    summary, last_frame, last_frame_hash, cache_files, calls, completed, loop, Server >>

NextDelay ==
    \E game_config \in GameConfigs, action \in LoopActions : DetermineDelay(game_config, action)

SpecDelay == InitConstruct /\ [][NextDelay]_vars

(***************************************************************************)
(* Properties of determine_delay                                           *)
(***************************************************************************)
\* C17: for every action name and game config the delay is the action's own
\* delay of timing.actions when it has one, otherwise the delay of the action's
\* category when timing.categories defines it, otherwise the game's action_delay.
C17_DelayHierarchy ==
    (last.op = "determine_delay" /\ last.arg.action # PyNone) =>
        \A game_config \in {last.arg.game_config}, action \in {last.arg.action} :
            \A timing \in {DictGet(game_config, "timing", EmptyDict)} :
                last.ret =
                    IF action \in DOMAIN DictGet(timing, "actions", EmptyDict)
                    THEN timing.actions[action]
                    ELSE IF Category(action) \in DOMAIN DictGet(timing, "categories", EmptyDict)
                         THEN timing.categories[Category(action)]
                         ELSE DictGet(game_config, "action_delay", 1000)

(***************************************************************************)
(* Properties of the response format of local backends                     *)
(***************************************************************************)
\* C21: for provider local with JSON schema support, the request built uses the
\* JSON-object mode when the backend is llama.cpp and the JSON-schema mode when
\* the backend is vllm.
C21_LocalResponseFormat ==
    (model_config.provider = "local" /\ model_config.json_schema_support) =>
        \A frame \in Frames : \A request \in {Request(frame)} :
            /\ model_config.backend = "llama.cpp" => request.response_format = "json_object"
            /\ model_config.backend = "vllm" => request.response_format = "json_schema"

(***************************************************************************)
(* Properties of the frame cache and the stored fingerprint                *)
(***************************************************************************)
ImportantActions == { Str(<<"A">>), Str(<<"Start">>), Str(<<"Select">>) }

\* C22: with frame persistence enabled a completed decide_action call writes
\* the frame if and only if the turn counter is a multiple of 10 or the action
\* resolved is A, Start or Select, under the name made of the hash and the
\* resolved action; with persistence disabled nothing is written.
C22_FramePersistence ==
    [][(calls' = calls + 1 /\ ~last'.raised) =>
          IF model_config.enable_cache
             /\ (turn_count' % 10 = 0 \/ last'.ret \in ImportantActions)
          THEN [hash |-> last_frame_hash', action |-> last'.ret] \in cache_files'
          ELSE cache_files' = cache_files]_vars

\* C23: after every decide_action(frame) call, in every configuration, the
\* stored fingerprint (last_frame, last_frame_hash) is that of the frame just
\* passed, whatever the similarity and the outcome of the turn.
C23_FingerprintReplaced ==
    [][\A frame \in Frames :
          (\E outcome \in {last'.arg} : DecideAction(frame, outcome)) =>
              /\ last_frame' = frame
              /\ last_frame_hash' = _calculate_frame_hash(frame)]_vars

(***************************************************************************)
(* The game loop of play.main, with frame logging and session saving off.  *)
(* One step per statement group of an iteration: the test of the while     *)
(* condition, emulator.get_frame, agent.decide_action, agent.parse_action, *)
(* the branch that executes the action, and the increment of the counter.  *)
(***************************************************************************)
MaxTurns == 2

\* the replies of the model during a game: a bare action, a JSON action, the
\* choice to wait, a transport failure, and a content that is not text
LoopOutcomes ==
    { Reply(<<"A">>),
      Reply(Object(<< Member("action", Quoted(<<"C", "-", "Up">>)),
                      Member("reasoning", Quoted(<<"x">>)) >>)),
      Reply(WaitReply),
      Outcome("timeout", "", PyNone),
      Outcome("content", "200", Num(<<"5">>)) }

LoopSetups ==
    { Setup(Config("openai", "", FALSE, 1), DefaultActions, FALSE),
      Setup(Config("local", "llama.cpp", TRUE, MaxHistory), N64Actions, TRUE) }

\* main up to the loop: the agent is constructed, turn_count = starting_turn
InitLoop ==
    /\ \E setup \in LoopSetups :
          /\ model_config = setup.model_config
          /\ valid_actions = setup.valid_actions
          /\ use_summary = setup.use_summary
    /\ message_history = <<>>
    /\ turn_count = 0
    /\ summary = Str(<<>>)
    /\ last_frame = PyNone
    /\ last_frame_hash = PyNone
    /\ cache_files = {}
    /\ calls = 0
    /\ completed = 0
    /\ last = NoCall
    /\ \E max_turns \in 0..MaxTurns, starting_turn \in 0..(MaxTurns + 1) :
          loop = [NoLoop EXCEPT !.pc = "test", !.max_turns = max_turns,
                                !.start = starting_turn, !.turn_count = starting_turn]
    /\ _server_process = PyNone
    /\ processes = << >>

Agent == << model_config, valid_actions, use_summary, message_history, turn_count, summary,
            last_frame, last_frame_hash, cache_files, calls, completed, last >>

\* an action is executed for every truthy result of parse_action
ShouldSendAlways(action) == TRUE

\* "if action:"
ShouldSend(action) == Truthy(action)

\* a loop that runs one more turn at the limit
KeepPlayingInclusive(max_turns, turns) == max_turns = 0 \/ turns <= max_turns

\* args.max_turns == 0 or turn_count < args.max_turns
KeepPlaying(max_turns, turns) == max_turns = 0 \/ turns < max_turns

\* the test of the while statement
LoopTest ==
    /\ loop.pc = "test"
    /\ loop' = IF KeepPlaying(loop.max_turns, loop.turn_count)
               THEN [loop EXCEPT !.pc = "capture"]
               ELSE [loop EXCEPT !.pc = "finally", !.ended = "limit"]
    /\ UNCHANGED << Agent, Server >>

\* frame = emulator.get_frame()
LoopCapture(frame) ==
    /\ loop.pc = "capture"
    /\ loop' = [loop EXCEPT !.pc = "decide", !.frame = frame, !.captured = @ + 1,
                            !.sends = 0, !.sent = PyNone,
                            !.action_text = PyNone, !.action = PyNone]
    /\ UNCHANGED << Agent, Server >>

\* action_text = agent.decide_action(frame); an exception leaves the loop
LoopDecide(outcome) ==
    /\ loop.pc = "decide"
    /\ DecideAction(loop.frame, outcome)
    /\ UNCHANGED Server
    /\ loop' = IF last'.raised
               THEN [loop EXCEPT !.pc = "finally", !.ended = "exception", !.decided = @ + 1]
               ELSE [loop EXCEPT !.pc = "parse", !.action_text = last'.ret,
                                 !.decided = @ + 1]

\* action = agent.parse_action(action_text)
LoopParse ==
    /\ loop.pc = "parse"
    /\ ParseAction(loop.action_text)
    /\ UNCHANGED Server
    /\ loop' = IF last'.raised
               THEN [loop EXCEPT !.pc = "finally", !.ended = "exception"]
               ELSE [loop EXCEPT !.pc = "act", !.action = last'.ret]

\* the branches on action: emulator.send_input(action) and the wait that follows,
\* the shorter wait for None, the warning for an empty result
LoopAct ==
    /\ loop.pc = "act"
    /\ loop' = IF ShouldSend(loop.action)
               THEN [loop EXCEPT !.pc = "advance", !.sends = @ + 1, !.sent = loop.action]
               ELSE [loop EXCEPT !.pc = "advance"]
    /\ UNCHANGED << Agent, Server >>

\* turn_count += 1
LoopAdvance ==
    /\ loop.pc = "advance"
    /\ loop' = [loop EXCEPT !.pc = "test", !.turn_count = @ + 1]
    /\ UNCHANGED << Agent, Server >>

\* KeyboardInterrupt between two statements of the try block
LoopInterrupt ==
    /\ loop.pc \in {"test", "capture", "decide", "parse", "act", "advance"}
    /\ loop' = [loop EXCEPT !.pc = "finally", !.ended = "interrupt"]
    /\ UNCHANGED << Agent, Server >>

\* finally: emulator.close()
LoopFinally ==
    /\ loop.pc = "finally"
    /\ loop' = [loop EXCEPT !.pc = "done", !.closes = @ + 1]
    /\ UNCHANGED << Agent, Server >>

\* the statements of the loop in program order
LoopStep ==
    \/ LoopTest
    \/ \E frame \in Frames : LoopCapture(frame)
    \/ \E outcome \in LoopOutcomes : LoopDecide(outcome)
    \/ LoopParse
    \/ LoopAct
    \/ LoopAdvance
    \/ LoopFinally

NextLoop == LoopStep \/ LoopInterrupt

SpecLoop == InitLoop /\ [][NextLoop]_vars

\* the program keeps executing its next statement
SpecLoopFair == SpecLoop /\ WF_vars(LoopStep)

(***************************************************************************)
(* Properties of the game loop                                             *)
(***************************************************************************)
ValidActionSet == { Str(valid_actions[i]) : i \in 1..Len(valid_actions) }

C26_ReparseIsIdentity ==
    /\ loop.pc \in {"act", "advance"} => loop.action = loop.action_text
    /\ (loop.pc = "advance" /\ loop.sends = 1 /\ message_history # <<>>)
       => loop.sent = message_history[1].action

Max(a, b) == IF a >= b THEN a ELSE b

\* C30: with max_turns > 0 the loop started at turn s terminates, after exactly
\* max(0, max_turns - s) iterations when it ends at the turn limit; the turn
\* counter advances by one per iteration whatever the decision; and however the
\* loop ends (limit, interrupt, exception) emulator.close() is called exactly
\* once, afterwards.
C30_LoopTerminates ==
    /\ [](loop.pc = "done" => (loop.closes = 1 /\ loop.ended # ""))
    /\ [](loop.pc # "done" => loop.closes = 0)
    /\ []((loop.pc = "done" /\ loop.ended = "limit" /\ loop.max_turns > 0) =>
             /\ loop.turn_count - loop.start = Max(0, loop.max_turns - loop.start)
             /\ loop.captured = Max(0, loop.max_turns - loop.start)
             /\ loop.decided = loop.captured)
    /\ [][loop'.turn_count # loop.turn_count =>
             /\ loop'.turn_count = loop.turn_count + 1
             /\ loop.turn_count - loop.start = loop.captured - 1]_vars
    /\ (loop.max_turns > 0 => <>(loop.pc = "done"))

\* a loop of two turns has ended at the turn limit and closed the emulator
C30_Witness ==
    /\ loop.pc = "done"
    /\ loop.ended = "limit"
    /\ loop.max_turns = MaxTurns
    /\ loop.start = 0
    /\ loop.turn_count = MaxTurns
    /\ loop.closes = 1

(***************************************************************************)
(* The prompt builder and the response interpreter called on their own     *)
(***************************************************************************)
\* action_enum of _construct_prompt: a copy of valid_actions with "None" appended
action_enum(self) == Append(self.valid_actions, <<"None">>)

\* one call of _construct_prompt(image_data) from outside decide_action: the
\* prompt and its action_enum are built from copies, no attribute is assigned
ConstructPrompt(frame) ==
    /\ last' = [ op |-> "prompt", arg |-> Outcome("", "", PyNone), similarity |-> -1,
                 raised |-> FALSE, ret |-> PyNone, posts |-> 0,
                 action_enum |-> action_enum(Self),
                 summary |-> _construct_prompt(Self, _prepare_image(frame)).summary ]
    /\ UNCHANGED << model_config, valid_actions, use_summary, message_history, turn_count,
                    summary, last_frame, last_frame_hash, cache_files, calls, completed, loop, Server >>

NextStateless ==
    \/ \E action_text \in ParseArgs : ParseAction(action_text) /\ UNCHANGED << loop, Server >>
    \/ \E frame \in Frames : ConstructPrompt(frame)

SpecStateless == Init /\ [][NextStateless]_vars

\* C25: _construct_prompt and parse_action are stateless: a call of either, with
\* any input, leaves valid_actions, the history, the turn counter, the stored
\* fingerprint and the running summary unchanged.
C25_BuilderAndInterpreterStateless ==
    [][last'.op \in {"parse", "prompt"} =>
          UNCHANGED << valid_actions, message_history, turn_count, last_frame,
                       last_frame_hash, summary >>]_vars

(***************************************************************************)
(* The stored frame and its fingerprint                                    *)
(***************************************************************************)
\* C28: after any sequence of decide_action and clear_cache calls last_frame is
\* None exactly when last_frame_hash is None; clear_cache resets both and leaves
\* the history, the turn counter and the running summary unchanged.
C28_FrameAndFingerprintTogether ==
    /\ []((last_frame = PyNone) <=> (last_frame_hash = PyNone))
    /\ [][last'.op = "clear" =>
             /\ last_frame' = PyNone
             /\ last_frame_hash' = PyNone
             /\ UNCHANGED << message_history, turn_count, summary >>]_vars

\* clear_cache has run after a turn of an agent that stores fingerprints and
\* has a history
C28_Witness ==
    /\ last.op = "clear"
    /\ model_config.enable_cache
    /\ turn_count > 0
    /\ message_history # <<>>
    /\ last_frame = PyNone

(***************************************************************************)
(* The running summary and the request                                     *)
(***************************************************************************)
\* values of the summary attribute two agents may differ in
SummaryValues == { Str(<<>>), Str(<<"y">>), Str(<<"Boss", "sp", "room">>) }

\* the request an agent in the current state with this running summary builds
RequestWithSummary(frame, other) ==
    SentRequest([Self EXCEPT !.summary = other],
                _construct_prompt([Self EXCEPT !.summary = other], _prepare_image(frame)))

\* C29: with summary mode disabled the request of a turn does not depend on the
\* running summary: agents that differ only in their summary build identical
\* requests for the same frame, history and configuration.
C29_RequestIgnoresSummary ==
    ~use_summary =>
        \A frame \in Frames : \A other \in SummaryValues :
            RequestWithSummary(frame, other) = Request(frame)

\* an agent with summary mode disabled holds a summary taken from a reply and
\* has a history to render
C29_Witness ==
    /\ ~use_summary
    /\ summary # Str(<<>>)
    /\ message_history # <<>>
    /\ last.op = "decide"
    /\ last.posts = 1

(***************************************************************************)
(* llama_cpp/server.py: start_server and stop_server                       *)
(*   _server_process is None or the Popen object of a launched process;    *)
(*   processes[pid] is "running", "exited" (ended by itself), "terminated" *)
(*   (sent SIGTERM) or "killed" (sent SIGKILL after SIGTERM).              *)
(***************************************************************************)
\* launches of the server process a behaviour may contain
MaxLaunches == 3

Popen(pid) == [t |-> "Popen", s |-> <<pid>>]

\* _server_process.terminate() and kill(): a signal to a process that still runs
Signal(procs, handle, state) ==
    LET pid == handle.s[1]
    IN IF procs[pid] = "running" THEN [procs EXCEPT ![pid] = state] ELSE procs

ServerState(handle, procs) == [_server_process |-> handle, processes |-> procs]

\* a stop_server that signals the process and keeps the handle
StopServerKeepsHandle(handle, procs, graceful) ==
    IF handle = PyNone THEN ServerState(handle, procs)
    ELSE ServerState(handle, Signal(procs, handle, "terminated"))

\* stop_server(): graceful tells whether the process ends within 5 seconds of SIGTERM
stop_server(handle, procs, graceful) ==
    IF handle = PyNone THEN ServerState(handle, procs)
    ELSE ServerState(PyNone, Signal(procs, handle, IF graceful THEN "terminated" ELSE "killed"))

\* what a call of start_server meets: the model file, the launch, the startup
\* ("up": a GET answers 200; "exited": the process ends before that; "timeout":
\* 30 tries without an answer; "error": a GET raises another exception), and
\* whether the process ends on SIGTERM
Worlds ==
    { [model_file |-> model_file, launch |-> launch, startup |-> startup, graceful |-> graceful] :
        model_file \in BOOLEAN, launch \in {"ok", "OSError"},
        startup \in {"up", "exited", "timeout", "error"}, graceful \in BOOLEAN }

ServerCall(op, world, error, launched) ==
    [ op |-> op, arg |-> world, similarity |-> -1, raised |-> error # "", ret |-> PyNone,
      posts |-> 0, error |-> error, launched |-> launched ]

\* one call of start_server(model_path, host, port) in the world given
StartServer(world) ==
    LET pid == Len(processes) + 1
        launched == Append(processes, "running")
        Ends(handle, procs, error, started) ==
            /\ _server_process' = handle
            /\ processes' = procs
            /\ last' = ServerCall("start_server", world, error, started)
    IN /\ \/ _server_process # PyNone
          \/ ~world.model_file
          \/ world.launch # "ok"
          \/ Len(processes) < MaxLaunches
       /\ IF _server_process # PyNone
          THEN Ends(_server_process, processes, "", FALSE)
          ELSE IF ~world.model_file
          THEN Ends(PyNone, processes, "FileNotFoundError", FALSE)
          ELSE IF world.launch # "ok"
          THEN \* Popen raises: the handle was not assigned
               Ends(PyNone, processes, world.launch, FALSE)
          ELSE IF world.startup = "up"
          THEN Ends(Popen(pid), launched, "", TRUE)
          ELSE IF world.startup = "exited"
          THEN Ends(PyNone, [launched EXCEPT ![pid] = "exited"], "RuntimeError", TRUE)
          ELSE IF world.startup = "timeout"
          THEN \E stopped \in {stop_server(Popen(pid), launched, world.graceful)} :
                   Ends(stopped._server_process, stopped.processes, "TimeoutError", TRUE)
          ELSE \* the handler of 'except Exception'
               Ends(PyNone, Signal(launched, Popen(pid), "terminated"), "Exception", TRUE)
       /\ UNCHANGED << model_config, valid_actions, use_summary, message_history, turn_count,
                       summary, last_frame, last_frame_hash, cache_files, calls, completed, loop >>

\* one call of stop_server()
StopServer(graceful) ==
    /\ \E stopped \in {stop_server(_server_process, processes, graceful)} :
          /\ _server_process' = stopped._server_process
          /\ processes' = stopped.processes
    /\ last' = ServerCall("stop_server", [graceful |-> graceful], "", FALSE)
    /\ UNCHANGED << model_config, valid_actions, use_summary, message_history, turn_count,
                    summary, last_frame, last_frame_hash, cache_files, calls, completed, loop >>

\* the tracked server process ends by itself
ProcessExits ==
    /\ _server_process # PyNone
    /\ processes[_server_process.s[1]] = "running"
    /\ processes' = [processes EXCEPT ![_server_process.s[1]] = "exited"]
    /\ last' = [NoCall EXCEPT !.op = "exited"]
    /\ UNCHANGED << model_config, valid_actions, use_summary, message_history, turn_count,
                    summary, last_frame, last_frame_hash, cache_files, calls, completed, loop,
                    _server_process >>

NextServer ==
    \/ \E world \in Worlds : StartServer(world)
    \/ \E graceful \in BOOLEAN : StopServer(graceful)
    \/ ProcessExits

SpecServer == InitConstruct /\ [][NextServer]_vars

\* C27: over any sequence of start_server and stop_server calls at most one
\* server subprocess is tracked by the module-level handle: every launched
\* process that runs and was sent no signal is the one the handle refers to;
\* start_server while
\* a handle is held launches nothing and returns; after stop_server returns or
\* start_server raises the handle is None; stop_server with no handle changes
\* nothing.
C27_SingleTrackedServer ==
    /\ [](\A pid \in 1..Len(processes) :
              processes[pid] = "running" => _server_process = Popen(pid))
    /\ [](last.op = "stop_server" => _server_process = PyNone)
    /\ []((last.op = "start_server" /\ last.raised) => _server_process = PyNone)
    /\ [][(last'.op = "start_server" /\ _server_process # PyNone) =>
             /\ UNCHANGED Server
             /\ ~last'.raised
             /\ ~last'.launched]_vars
    /\ [][(last'.op = "stop_server" /\ _server_process = PyNone) => UNCHANGED Server]_vars

\* start_server has returned without a launch while the second process launched
\* is tracked; the first one was stopped
C27_Witness ==
    /\ last.op = "start_server"
    /\ ~last.raised
    /\ ~last.launched
    /\ _server_process = Popen(2)
    /\ processes[1] \in {"terminated", "killed"}

====
